---------------------------- MODULE Spec2Model ----------------------------
(***************************************************************************)
(* Autosave path of the document editor (DocumentEditor, App).             *)
(*                                                                         *)
(* The editor is a React function component: every handler is a closure    *)
(* over the state values of the render that created it.  The model keeps   *)
(* the committed component state (document, loading, saving), the editor's *)
(* serialized content (html), the timers armed by debouncedSave with the   *)
(* values their callbacks captured, and the store calls that are in        *)
(* flight.  A state update and the re-render it causes are one step, so    *)
(* the handler the editor invokes on an edit is the one of the latest      *)
(* render.                                                                 *)
(*                                                                         *)
(* Fields and variables marked "history" are not program state: they       *)
(* record what happened so that properties can refer to it.                *)
(***************************************************************************)
EXTENDS Integers, Sequences, FiniteSets, TLC

\* ------------------------------------------------------------------ bounds
MaxEdits == 2          \* edit events (editor onUpdate) in a behaviour
MaxOpens == 2          \* times a document is opened from the list
MaxTitleUpdates == 1   \* title submissions in a behaviour
MaxExports == 1        \* exports to DOCX in a behaviour
MaxCreates == 1        \* clicks on New Document in a behaviour
MaxImports == 1        \* files chosen for import in a behaviour
MaxOps == 2            \* user operations in a behaviour of the whole application
MaxSessionOps == 4     \* user operations in a behaviour of the editor alone
MaxAuthChanges == 3    \* auth-state changes in a behaviour
TickMs == 500          \* granularity of the clock, in milliseconds

\* --------------------------------------------------------------- constants
DebounceMs == 1000     \* setTimeout delay in debouncedSave

DocIds == {"doc_1"}    \* documents in the store when the app starts
Contents == {"", "<p>a</p>", "<p>b</p>"}
Titles == {"Untitled Document", "Report"}
\* Values the title field can hold when it is submitted, as sequences of
\* pieces: empty, blank, a title, a title followed by a space.
TitleInputs == { <<>>, <<" ">>,
                 <<"Report">>, <<"Report", " ">>,
                 <<"Untitled Document">>, <<" ", "Untitled Document">> }
UserId == "user_1"     \* user.id of the signed-in user
NoUser == "null"       \* App user state: no user
LoadResults == {"found", "none", "throw"}   \* documents.list: a match, [], rejects
\* Names of the files offered for import, as sequences of characters.
Files == { <<"a", ".", "d", "o", "c", "x">>,
           <<"B", ".", "D", "o", "c", "X">>,
           <<".", "d", "o", "c", "x">>,
           <<"a", ".", "d", "o", "c">> }
NoFile == <<>>         \* the file input holds no file
ImportedContents == {"<p>a</p>"}   \* result.value of mammoth.convertToHtml
NoId == "null"         \* currentDocumentId === null
\* document === null
NoDoc == [id |-> "null", title |-> "", content |-> "", owner_user_id |-> "",
          created_at |-> 0, updated_at |-> 0]

VARIABLES
    store,              \* documents table: id -> record of DocumentData
    now,                \* the clock: number of the current instant
    stamped,            \* a document id was made from the clock at this instant
    toasts,             \* notifications shown so far: [error, success]
    failures,           \* history: store and codec calls that failed so far
    currentDocumentId,  \* App state
    session,            \* history: number of the mounted DocumentEditor instance
    document,           \* DocumentEditor state: NoDoc or [id, title, content]
    loading,            \* DocumentEditor state
    saving,             \* DocumentEditor state
    html,               \* editor.getHTML()
    loads,              \* loadDocument calls awaiting documents.list: [sess, id]
    loaded,             \* history: sessions whose document has been loaded
    loadFailed,         \* history: sessions whose first load found nothing or threw
    timers,             \* armed setTimeout callbacks of debouncedSave, oldest first
    inflight,           \* documents.update calls awaiting their result
    edits,              \* history: number of edit events so far
    lastEdit,           \* history: number of the latest edit of the mounted session
    hist,               \* history: per edit, what became of it
    lastDone,           \* history: the content write that completed last
    failedPending,      \* history: contents whose write failed, not yet saved again
    opens,              \* history: number of opens so far
    titleUpdates,       \* history: number of title submissions so far
    importing,          \* DocumentList state
    fileInput,          \* value of the hidden file input of the list
    imports,            \* handleFileImport calls in progress
    creating,           \* createNewDocument calls awaiting documents.create
    importLog,          \* history: per import, its file and what it did
    createdIds,         \* history: ids given to documents.create, in order
    importCount,        \* history: number of files chosen so far
    createCount,        \* history: number of New Document clicks so far
    exports,            \* exportToDocx calls awaiting Packer.toBlob
    exportCount,        \* history: number of exports started so far
    downloads,          \* names of the files handed to the browser
    user,               \* App state: NoUser or the id of the user
    authLoading,        \* App state: loading
    authChanges         \* history: number of auth-state changes so far

vars == <<store, now, stamped, toasts, failures, currentDocumentId, session,
          document, loading, saving, html, loads, loaded, loadFailed, timers,
          inflight, edits, lastEdit, hist, lastDone, failedPending, opens,
          titleUpdates, importing, fileInput, imports, creating, importLog,
          createdIds, importCount, createCount, exports, exportCount,
          downloads, user, authLoading, authChanges>>

\* Groups of variables, for the UNCHANGED clauses.
clockVars == <<now, stamped>>
noteVars == <<toasts, failures>>
appVars == <<currentDocumentId, session>>
editorVars == <<document, loading, saving, html, lastEdit>>
loadVars == <<loads, loaded, loadFailed>>
editHistVars == <<edits, hist, lastDone, failedPending>>
exportVars == <<exports, exportCount, downloads>>
listUi == <<importing, fileInput>>
authVars == <<user, authLoading, authChanges>>
listCalls == <<imports, creating, importLog, createdIds, importCount,
               createCount>>

\* ----------------------------------------------------------------- helpers
\* Render without the sign-in screen.
Render_NoSignIn(u, l, id) ==
    IF l THEN "loading"
    ELSE IF id # NoId THEN "editor"
    ELSE "list"

\* What App returns: the loading screen while loading, the sign-in screen
\* without a user, else the editor if a document is selected, else the list.
Render(u, l, id) ==
    IF l THEN "loading"
    ELSE IF u = NoUser THEN "signin"
    ELSE IF id # NoId THEN "editor"
    ELSE "list"

Screen == Render(user, authLoading, currentDocumentId)

\* The DocumentEditor is rendered by App.
Mounted == Screen = "editor"

\* The DocumentList is rendered by App.
ListShown == Screen = "list"

\* Rendered with the editor and header on screen from the mount on, before the
\* document is loaded.
Rendered_Early == Mounted

\* The editor, header and status bar are on screen (not the spinner, not null).
Rendered == Mounted /\ ~loading /\ document # NoDoc

\* const contentToSave = content || ''
ContentToSave(content) == IF content = "undefined" \/ content = "" THEN "" ELSE content

\* useEffect(() => { if (document && editor && !editor.getHTML())
\*                     editor.commands.setContent(document.content || '') })
SetContentEffect(doc, h) ==
    IF doc # NoDoc /\ h = "" THEN ContentToSave(doc.content) ELSE h

\* The DocumentList instance that was mounted as instance inst is on screen.
\* A list instance is named by the number of the editor session it followed.
ListLive(inst) == ListShown /\ session = inst

\* String.prototype.toLowerCase, on the characters that occur in Files.
LowerChar(c) ==
    CASE c = "B" -> "b" [] c = "D" -> "d" [] c = "O" -> "o"
      [] c = "C" -> "c" [] c = "X" -> "x" [] OTHER -> c
ToLowerCase(name) == [i \in 1..Len(name) |-> LowerChar(name[i])]

\* String.prototype.endsWith
EndsWith(name, suffix) ==
    /\ Len(name) >= Len(suffix)
    /\ SubSeq(name, Len(name) - Len(suffix) + 1, Len(name)) = suffix

\* file.name.toLowerCase().endsWith('.docx')
IsDocxName(name) == EndsWith(ToLowerCase(name), <<".", "d", "o", "c", "x">>)

\* The characters of a name as one string.
RECURSIVE Join(_)
Join(name) == IF name = <<>> THEN "" ELSE Head(name) \o Join(Tail(name))

\* file.name.replace(/\.docx?$/i, '') || 'Imported Document'
ImportTitle(name) ==
    LET low == ToLowerCase(name)
        cut == IF EndsWith(low, <<".", "d", "o", "c", "x">>) THEN 5
               ELSE IF EndsWith(low, <<".", "d", "o", "c">>) THEN 4
               ELSE 0
        stem == SubSeq(name, 1, Len(name) - cut)
    IN IF stem = <<>> THEN "Imported Document" ELSE Join(stem)

\* `doc_${Date.now()}` at instant n
IdAt(n) == "doc_" \o ToString(n)

\* blink.db.documents.create(doc): the record is stored under its id.
StoreCreate(st, doc) ==
    [id \in DOMAIN st \cup {doc.id} |-> IF id = doc.id THEN doc ELSE st[id]]

NoImport == [name |-> NoFile, outcome |-> "none", created |-> FALSE,
             navigated |-> FALSE, errors |-> 0]

\* blink.db.documents.update(id, fields): the fields given replace those of the
\* stored record, the others are kept.
StoreUpdate(rec, fields) ==
    [f \in DOMAIN rec |-> IF f \in DOMAIN fields THEN fields[f] ELSE rec[f]]

\* Payload that also rewrites created_at.
Payload_Created(w) ==
    IF w.kind = "content"
    THEN [content |-> w.content, updated_at |-> w.updated_at,
          created_at |-> w.updated_at]
    ELSE [title |-> w.title, updated_at |-> w.updated_at]

\* The fields a documents.update call in flight carries:
\* saveDocument sends { content, updated_at }, updateTitle { title, updated_at }.
Payload(w) ==
    IF w.kind = "content"
    THEN [content |-> w.content, updated_at |-> w.updated_at]
    ELSE [title |-> w.title, updated_at |-> w.updated_at]

\* toast({ ..., variant: "destructive" }) and toast({ title: "Success", ... })
ToastError(t) == [t EXCEPT !.error = @ + 1]
ToastSuccess(t) == [t EXCEPT !.success = @ + 1]

\* Status bar: saving ? 'Saving...' : 'Saved'
StatusText == IF saving THEN "Saving..." ELSE "Saved"

\* Content writes in flight that were issued by session s.
ContentWrites(s) == {w \in inflight : w.kind = "content" /\ w.sess = s}

\* history: the latest edit made in session s (0 if none).
LastEditOf(s) ==
    LET ks == {k \in 1..edits : hist[k].sess = s}
    IN IF ks = {} THEN 0 ELSE CHOOSE k \in ks : \A j \in ks : j <= k

NoEdit == [sess |-> 0, content |-> "", duringWrite |-> FALSE,
           savingAtEdit |-> FALSE, superseded |-> FALSE, status |-> "none"]

\* -------------------------------------------------------------------- Init
\* The state of everything but the authentication.
InitData ==
    /\ store = [id \in DocIds |->
                  [id |-> id, title |-> "Untitled Document", content |-> "",
                   owner_user_id |-> UserId, created_at |-> 1, updated_at |-> 1]]
    /\ now = 2
    /\ stamped = FALSE
    /\ toasts = [error |-> 0, success |-> 0]
    /\ failures = 0
    /\ currentDocumentId = NoId
    /\ session = 0
    /\ document = NoDoc
    /\ loading = TRUE
    /\ saving = FALSE
    /\ html = ""
    /\ loads = {}
    /\ loaded = {}
    /\ loadFailed = {}
    /\ timers = <<>>
    /\ inflight = {}
    /\ edits = 0
    /\ lastEdit = 0
    /\ hist = [k \in 1..MaxEdits |-> NoEdit]
    /\ lastDone = [seq |-> 0, ok |-> TRUE]
    /\ failedPending = {}
    /\ opens = 0
    /\ titleUpdates = 0
    /\ importing = FALSE
    /\ fileInput = NoFile
    /\ imports = {}
    /\ creating = {}
    /\ importLog = [n \in 1..MaxImports |-> NoImport]
    /\ createdIds = <<>>
    /\ importCount = 0
    /\ createCount = 0
    /\ exports = {}
    /\ exportCount = 0
    /\ downloads = {}
    /\ authChanges = 0

\* The app once blink.auth has reported a signed-in user: the list is on
\* screen.
Init ==
    /\ InitData
    /\ user = UserId
    /\ authLoading = FALSE

\* The app as constructed: useState(null), useState(true), useState(null).
InitApp ==
    /\ InitData
    /\ user = NoUser
    /\ authLoading = TRUE

\* ----------------------------------------------------------------- actions

\* onDocumentSelect = setCurrentDocumentId.  With the list on screen App
\* mounts a new DocumentEditor (fresh state, editor content ''); with an editor
\* on screen the same instance gets a new documentId prop.  Either way the
\* loadDocument effect runs: setLoading(true), then awaits documents.list.
\* With neither on screen (no user) only the selection changes.
OnDocumentSelect(id) ==
    /\ currentDocumentId' = id
    /\ importing' = FALSE
    /\ fileInput' = NoFile
    /\ IF Mounted
       THEN /\ IF id = currentDocumentId
               THEN UNCHANGED <<loading, loads>>
               ELSE /\ loading' = TRUE
                    /\ loads' = loads \cup {[sess |-> session, id |-> id]}
            /\ UNCHANGED <<session, document, saving, html, lastEdit>>
       ELSE IF ListShown
       THEN /\ session' = session + 1
            /\ document' = NoDoc
            /\ loading' = TRUE
            /\ saving' = FALSE
            /\ html' = ""
            /\ lastEdit' = 0
            /\ loads' = loads \cup {[sess |-> session + 1, id |-> id]}
       ELSE UNCHANGED <<session, document, loading, saving, html, lastEdit,
                        loads>>

\* A document card of the list is clicked.
Open(id) ==
    /\ ListShown
    /\ opens < MaxOpens
    /\ id \in DOMAIN store
    /\ opens' = opens + 1
    /\ OnDocumentSelect(id)
    /\ UNCHANGED <<store, clockVars, noteVars, loaded, loadFailed, timers,
                   inflight, editHistVars, titleUpdates, exportVars,
                   listCalls>>
    /\ UNCHANGED authVars

\* onBack = () => setCurrentDocumentId(null): App unmounts the DocumentEditor
\* and mounts a new DocumentList.  Nothing cancels the editor instance's timers
\* or awaits its store calls.  With the list already on screen (onBack called
\* by an instance that is gone) the state of App does not change and the list
\* stays as it is.
Unmount ==
    /\ currentDocumentId' = NoId
    /\ importing' = IF Mounted THEN FALSE ELSE importing
    /\ fileInput' = IF Mounted THEN NoFile ELSE fileInput
    /\ document' = NoDoc
    /\ loading' = TRUE
    /\ saving' = FALSE
    /\ html' = ""
    /\ lastEdit' = 0

\* LoadDone without the onBack() of its failure branches: the session stays on
\* screen, unloaded.
LoadDone_NoBack(l, r) ==
    /\ l \in loads
    /\ r = "found" => l.id \in DOMAIN store
    /\ loads' = loads \ {l}
    /\ IF r = "found"
       THEN /\ IF Mounted /\ l.sess = session
               THEN /\ document' = store[l.id]
                    /\ loading' = FALSE
                    /\ html' = SetContentEffect(store[l.id], html)
                    /\ loaded' = loaded \cup {l.sess}
                    /\ UNCHANGED <<currentDocumentId, saving, lastEdit>>
               ELSE UNCHANGED <<currentDocumentId, document, loading, saving,
                                html, lastEdit, loaded>>
            /\ UNCHANGED <<noteVars, loadFailed, listUi>>
       ELSE /\ loading' = IF Mounted /\ l.sess = session THEN FALSE ELSE loading
            /\ toasts' = ToastError(toasts)
            /\ failures' = failures + 1
            /\ loadFailed' = IF l.sess \in loaded THEN loadFailed
                             ELSE loadFailed \cup {l.sess}
            /\ UNCHANGED <<currentDocumentId, document, saving, html, lastEdit,
                           loaded, listUi>>
    /\ UNCHANGED <<store, clockVars, session, timers, inflight, editHistVars,
                   opens, titleUpdates, exportVars,
                   listCalls>>
    /\ UNCHANGED authVars

\* loadDocument resumes after documents.list, for the instance that called it.
\* No match or a rejection: destructive toast and onBack().  State setters of
\* an unmounted instance have no effect; onBack acts on App.
LoadDone(l, r) ==
    /\ l \in loads
    /\ r = "found" => l.id \in DOMAIN store
    /\ loads' = loads \ {l}
    /\ IF r = "found"
       THEN /\ IF Mounted /\ l.sess = session
               THEN /\ document' = store[l.id]
                    /\ loading' = FALSE
                    /\ html' = SetContentEffect(store[l.id], html)
                    /\ loaded' = loaded \cup {l.sess}
                    /\ UNCHANGED <<currentDocumentId, saving, lastEdit>>
               ELSE UNCHANGED <<currentDocumentId, document, loading, saving,
                                html, lastEdit, loaded>>
            /\ UNCHANGED <<noteVars, loadFailed, listUi>>
       ELSE /\ Unmount
            /\ toasts' = ToastError(toasts)
            /\ failures' = failures + 1
            /\ loadFailed' = IF l.sess \in loaded THEN loadFailed
                             ELSE loadFailed \cup {l.sess}
            /\ UNCHANGED loaded
    /\ UNCHANGED <<store, clockVars, session, timers, inflight, editHistVars,
                   opens, titleUpdates, exportVars,
                   listCalls>>
    /\ UNCHANGED authVars

\* Back button of DocumentHeader.
Back ==
    /\ Rendered
    /\ Unmount
    /\ UNCHANGED <<store, clockVars, noteVars, session, loadVars, timers,
                   inflight, editHistVars, opens, titleUpdates, exportVars,
                   listCalls>>
    /\ UNCHANGED authVars

\* The user changes the text: editor onUpdate -> debouncedSave(editor.getHTML()).
\* A timer is armed whose callback closes over this render's document and
\* saving and over this render's saveDocument; the returned cancel function is
\* dropped, so earlier timers stay armed.
Edit(c) ==
    /\ Rendered
    /\ edits < MaxEdits
    /\ c # html
    /\ html' = c
    /\ edits' = edits + 1
    /\ lastEdit' = edits + 1
    /\ timers' = Append(timers,
                        [content |-> c, id |-> document.id,
                         doc |-> document # NoDoc,
                         saving |-> saving, sess |-> session,
                         remaining |-> DebounceMs, seq |-> edits + 1])
    /\ hist' = [k \in 1..MaxEdits |->
                 IF k = edits + 1
                 THEN [sess |-> session, content |-> c,
                       duringWrite |-> ContentWrites(session) # {},
                       savingAtEdit |-> saving,
                       superseded |-> FALSE, status |-> "armed"]
                 ELSE IF /\ hist[k].sess = session
                         /\ \E i \in 1..Len(timers) :
                               timers[i].seq = k /\ timers[i].remaining > 0
                      THEN [hist[k] EXCEPT !.superseded = TRUE]
                      ELSE hist[k]]
    /\ UNCHANGED <<store, clockVars, noteVars, appVars, document, loading,
                   saving, loadVars, inflight, lastDone, failedPending, opens,
                   titleUpdates, exportVars,
                   listUi, listCalls>>
    /\ UNCHANGED authVars

\* d milliseconds pass; no timer that is due is kept waiting.  The clock
\* moves to a new instant.  The program can tell instants apart only through
\* the ids it makes of them (timestamps are written, never read), so instants
\* between two ids are not told apart.
Tick(d) ==
    /\ \A i \in 1..Len(timers) : timers[i].remaining > 0
    /\ timers' = [i \in 1..Len(timers) |->
                   [timers[i] EXCEPT !.remaining = IF @ > d THEN @ - d ELSE 0]]
    /\ now' = IF stamped THEN now + 1 ELSE now
    /\ stamped' = FALSE
    /\ UNCHANGED <<store, noteVars, appVars, editorVars, loadVars, inflight,
                   editHistVars, opens, titleUpdates, exportVars,
                   listUi, listCalls>>
    /\ UNCHANGED authVars

\* Fire that arms the timer again, so that the content is written once more
\* a window later without any new edit.
Fire_Rearm ==
    /\ timers # <<>>
    /\ timers[1].remaining = 0
    /\ LET t == timers[1]
           live == Mounted /\ t.sess = session
       IN /\ timers' = Append(Tail(timers), [t EXCEPT !.remaining = DebounceMs])
          /\ IF t.doc /\ ~t.saving
             THEN /\ inflight' = inflight \cup
                        {[kind |-> "content", id |-> t.id,
                          content |-> ContentToSave(t.content),
                          title |-> "", updated_at |-> now,
                          sess |-> t.sess, seq |-> t.seq,
                          editorHTML |-> IF live THEN html
                                         ELSE hist[LastEditOf(t.sess)].content]}
                  /\ saving' = IF live THEN TRUE ELSE saving
                  /\ hist' = [hist EXCEPT ![t.seq].status = "inflight"]
             ELSE /\ hist' = [hist EXCEPT ![t.seq].status = "dropped"]
                  /\ UNCHANGED <<inflight, saving>>
    /\ UNCHANGED <<store, clockVars, noteVars, appVars, document, loading, html,
                   loadVars, edits, lastEdit, lastDone, failedPending, opens,
                   titleUpdates, exportVars,
                   listUi, listCalls>>
    /\ UNCHANGED authVars

\* Fire with empty content turned into a no-op.
Fire_SkipEmpty ==
    /\ timers # <<>>
    /\ timers[1].remaining = 0
    /\ LET t == timers[1]
           live == Mounted /\ t.sess = session
       IN /\ timers' = Tail(timers)
          /\ IF t.doc /\ ~t.saving /\ t.content # ""
             THEN /\ inflight' = inflight \cup
                        {[kind |-> "content", id |-> t.id,
                          content |-> ContentToSave(t.content),
                          title |-> "", updated_at |-> now,
                          sess |-> t.sess, seq |-> t.seq,
                          editorHTML |-> IF live THEN html
                                         ELSE hist[LastEditOf(t.sess)].content]}
                  /\ saving' = IF live THEN TRUE ELSE saving
                  /\ hist' = [hist EXCEPT ![t.seq].status = "inflight"]
             ELSE /\ hist' = [hist EXCEPT ![t.seq].status = "dropped"]
                  /\ UNCHANGED <<inflight, saving>>
    /\ UNCHANGED <<store, clockVars, noteVars, appVars, document, loading, html,
                   loadVars, edits, lastEdit, lastDone, failedPending, opens,
                   titleUpdates, exportVars,
                   listUi, listCalls>>
    /\ UNCHANGED authVars

\* The oldest timer's callback runs:
\*     if (document && !saving) saveDocument(content)
\* with the values captured when the timer was armed; saveDocument's own guard
\* (!document || saving) reads the same captured values.  saveDocument then
\* does setSaving(true) and awaits documents.update with
\* { content: contentToSave, updated_at: new Date().toISOString() }.
Fire ==
    /\ timers # <<>>
    /\ timers[1].remaining = 0
    /\ LET t == timers[1]
           live == Mounted /\ t.sess = session
       IN /\ timers' = Tail(timers)
          /\ IF t.doc /\ ~t.saving
             THEN /\ inflight' = inflight \cup
                        {[kind |-> "content", id |-> t.id,
                          content |-> ContentToSave(t.content),
                          title |-> "", updated_at |-> now,
                          sess |-> t.sess, seq |-> t.seq,
                          editorHTML |-> IF live THEN html
                                         ELSE hist[LastEditOf(t.sess)].content]}
                  /\ saving' = IF live THEN TRUE ELSE saving
                  /\ hist' = [hist EXCEPT ![t.seq].status = "inflight"]
             ELSE /\ hist' = [hist EXCEPT ![t.seq].status = "dropped"]
                  /\ UNCHANGED <<inflight, saving>>
    /\ UNCHANGED <<store, clockVars, noteVars, appVars, document, loading, html,
                   loadVars, edits, lastEdit, lastDone, failedPending, opens,
                   titleUpdates, exportVars,
                   listUi, listCalls>>
    /\ UNCHANGED authVars

\* saveDocument resumes after documents.update.  On success:
\* setDocument(prev => prev ? {...prev, content, updated_at: new Date()} : null);
\* on failure a destructive toast; in both cases the finally block does
\* setSaving(false).  The re-render runs the setContent effect.
SaveDone(w, ok) ==
    /\ w \in inflight
    /\ w.kind = "content"
    /\ inflight' = inflight \ {w}
    /\ LET live == Mounted /\ w.sess = session
           doc == IF ok /\ live /\ document # NoDoc
                  THEN [document EXCEPT !.content = w.content,
                                        !.updated_at = now]
                  ELSE document
       IN /\ store' = IF ok /\ w.id \in DOMAIN store
                      THEN [store EXCEPT ![w.id] = StoreUpdate(@, Payload(w))]
                      ELSE store
          /\ document' = doc
          /\ saving' = IF live THEN FALSE ELSE saving
          /\ html' = IF ok /\ live THEN SetContentEffect(doc, html) ELSE html
    /\ hist' = [hist EXCEPT ![w.seq].status = IF ok THEN "saved" ELSE "failed"]
    /\ lastDone' = [seq |-> w.seq, ok |-> ok]
    /\ failedPending' = IF ok THEN failedPending \ {<<w.sess, w.content>>}
                        ELSE failedPending \cup {<<w.sess, w.content>>}
    /\ toasts' = IF ok THEN toasts ELSE ToastError(toasts)
    /\ failures' = IF ok THEN failures ELSE failures + 1
    /\ UNCHANGED <<clockVars, appVars, loading, loadVars, timers, edits,
                   lastEdit, opens, titleUpdates, exportVars,
                   listUi, listCalls>>
    /\ UNCHANGED authVars

\* DocumentHeader.handleTitleSubmit calls onTitleChange(titleValue.trim()) when
\* the trimmed value is non-empty and the untrimmed value differs from
\* document.title, so every non-empty trimmed title can arrive here (the
\* current one too, typed with a trailing space).  updateTitle checks only
\* that the document is loaded (part of Rendered), then awaits
\* documents.update with { title: newTitle, updated_at: new Date() }.
UpdateTitle(newTitle) ==
    /\ Rendered
    /\ titleUpdates < MaxTitleUpdates
    /\ newTitle # ""
    /\ titleUpdates' = titleUpdates + 1
    /\ inflight' = inflight \cup
           {[kind |-> "title", id |-> document.id, content |-> "",
             title |-> newTitle, updated_at |-> now, sess |-> session,
             seq |-> titleUpdates + 1, editorHTML |-> html]}
    /\ UNCHANGED <<store, clockVars, noteVars, appVars, editorVars, loadVars,
                   timers, editHistVars, opens, exportVars,
                   listUi, listCalls>>
    /\ UNCHANGED authVars

\* String.prototype.trim, on a value given as a sequence of pieces of which
\* " " is white space.
RECURSIVE TrimStart(_)
TrimStart(v) == IF v # <<>> /\ Head(v) = " " THEN TrimStart(Tail(v)) ELSE v
RECURSIVE TrimEnd(_)
TrimEnd(v) ==
    IF v # <<>> /\ v[Len(v)] = " " THEN TrimEnd(SubSeq(v, 1, Len(v) - 1)) ELSE v
Trim(v) == TrimEnd(TrimStart(v))

\* The title field is submitted (blur or Enter) holding the value v:
\*     if (titleValue.trim() && titleValue !== document.title)
\*         onTitleChange(titleValue.trim())
\* otherwise no call is made.  onTitleChange is updateTitle.
HandleTitleSubmit(v) ==
    /\ Rendered
    /\ IF Trim(v) # <<>> /\ Join(v) # document.title
       THEN UpdateTitle(Join(Trim(v)))
       ELSE UNCHANGED vars

\* updateTitle resumes after documents.update.  On success:
\* setDocument(prev => prev ? {...prev, title: newTitle} : null) and a success
\* toast; on failure a destructive toast.
TitleDone(w, ok) ==
    /\ w \in inflight
    /\ w.kind = "title"
    /\ inflight' = inflight \ {w}
    /\ LET live == Mounted /\ w.sess = session
           doc == IF ok /\ live /\ document # NoDoc
                  THEN [document EXCEPT !.title = w.title]
                  ELSE document
       IN /\ store' = IF ok /\ w.id \in DOMAIN store
                      THEN [store EXCEPT ![w.id] = StoreUpdate(@, Payload(w))]
                      ELSE store
          /\ document' = doc
          /\ html' = IF ok /\ live THEN SetContentEffect(doc, html) ELSE html
    /\ toasts' = IF ok THEN ToastSuccess(toasts) ELSE ToastError(toasts)
    /\ failures' = IF ok THEN failures ELSE failures + 1
    /\ UNCHANGED <<clockVars, appVars, loading, saving, lastEdit, loadVars,
                   timers, editHistVars, opens, titleUpdates, exportVars,
                   listUi, listCalls>>
    /\ UNCHANGED authVars

\* Export that raises the saving flag while it runs.
Export_Saving ==
    /\ Rendered
    /\ exportCount < MaxExports
    /\ exportCount' = exportCount + 1
    /\ exports' = exports \cup {[n |-> exportCount + 1, sess |-> session,
                                 title |-> document.title]}
    /\ saving' = TRUE
    /\ UNCHANGED <<store, clockVars, noteVars, appVars, document, loading, html,
                   lastEdit, loadVars, timers, inflight, editHistVars, opens,
                   titleUpdates, downloads, listUi, listCalls>>
    /\ UNCHANGED authVars

\* Export button of DocumentHeader: exportToDocx returns at once unless the
\* document is loaded (part of Rendered); it builds the file from
\* editor.getText() and awaits Packer.toBlob.
Export ==
    /\ Rendered
    /\ exportCount < MaxExports
    /\ exportCount' = exportCount + 1
    /\ exports' = exports \cup {[n |-> exportCount + 1, sess |-> session,
                                 title |-> document.title]}
    /\ UNCHANGED <<store, clockVars, noteVars, appVars, editorVars, loadVars,
                   timers, inflight, editHistVars, opens, titleUpdates,
                   downloads,
                   listUi, listCalls>>
    /\ UNCHANGED authVars

\* ExportDone whose failure is swallowed without a toast.
ExportDone_Silent(e, ok) ==
    /\ e \in exports
    /\ exports' = exports \ {e}
    /\ downloads' = IF ok THEN downloads \cup {e.title \o ".docx"} ELSE downloads
    /\ toasts' = IF ok THEN ToastSuccess(toasts) ELSE toasts
    /\ failures' = IF ok THEN failures ELSE failures + 1
    /\ UNCHANGED <<store, clockVars, appVars, editorVars, loadVars, timers,
                   inflight, editHistVars, opens, titleUpdates, exportCount,
                   listUi, listCalls>>
    /\ UNCHANGED authVars

\* exportToDocx resumes after Packer.toBlob: the blob is downloaded as
\* `${document.title}.docx` with a success toast, or a destructive toast is
\* shown.
ExportDone(e, ok) ==
    /\ e \in exports
    /\ exports' = exports \ {e}
    /\ downloads' = IF ok THEN downloads \cup {e.title \o ".docx"} ELSE downloads
    /\ toasts' = IF ok THEN ToastSuccess(toasts) ELSE ToastError(toasts)
    /\ failures' = IF ok THEN failures ELSE failures + 1
    /\ UNCHANGED <<store, clockVars, appVars, editorVars, loadVars, timers,
                   inflight, editHistVars, opens, titleUpdates, exportCount,
                   listUi, listCalls>>
    /\ UNCHANGED authVars

\* ------------------------------------------------- actions of DocumentList

\* Variables of the editor that onDocumentSelect may change.
selectVars == <<currentDocumentId, session, document, loading, saving, html,
                lastEdit, loads, importing, fileInput>>

\* New Document button: createNewDocument awaits documents.create with the id
\* `doc_${Date.now()}`, an empty content and the current time.
CreateNew ==
    /\ ListShown
    /\ createCount < MaxCreates
    /\ createCount' = createCount + 1
    /\ creating' = creating \cup
           {[n |-> createCount + 1,
             doc |-> [id |-> IdAt(now), title |-> "Untitled Document",
                      content |-> "", owner_user_id |-> UserId,
                      created_at |-> now, updated_at |-> now]]}
    /\ createdIds' = Append(createdIds, IdAt(now))
    /\ stamped' = TRUE
    /\ UNCHANGED <<store, now, noteVars, appVars, editorVars, loadVars, timers,
                   inflight, editHistVars, opens, titleUpdates, exportVars,
                   listUi, imports, importLog, importCount>>
    /\ UNCHANGED authVars

\* createNewDocument resumes after documents.create: onDocumentSelect(newDoc.id)
\* and a success toast, or a destructive toast.
CreateDone(c, ok) ==
    /\ c \in creating
    /\ creating' = creating \ {c}
    /\ IF ok
       THEN /\ store' = StoreCreate(store, c.doc)
            /\ OnDocumentSelect(c.doc.id)
            /\ toasts' = ToastSuccess(toasts)
            /\ UNCHANGED failures
       ELSE /\ toasts' = ToastError(toasts)
            /\ failures' = failures + 1
            /\ UNCHANGED <<store, selectVars>>
    /\ UNCHANGED <<clockVars, loaded, loadFailed, timers, inflight,
                   editHistVars, opens, titleUpdates, exportVars, imports,
                   importLog, createdIds, importCount, createCount>>
    /\ UNCHANGED authVars

\* ImportFile without the check of the file name.
ImportFile_NoCheck(f) ==
    /\ ListShown
    /\ ~importing
    /\ importCount < MaxImports
    /\ importCount' = importCount + 1
    /\ fileInput' = f
    /\ importing' = TRUE
    /\ imports' = imports \cup
           {[n |-> importCount + 1, inst |-> session, name |-> f,
             stage |-> "convert", doc |-> NoDoc]}
    /\ importLog' = [importLog EXCEPT ![importCount + 1] =
                        [NoImport EXCEPT !.name = f, !.outcome = "running"]]
    /\ UNCHANGED <<store, clockVars, noteVars, appVars, editorVars, loadVars,
                   timers, inflight, editHistVars, opens, titleUpdates,
                   exportVars, creating, createdIds, createCount>>
    /\ UNCHANGED authVars

\* A file is chosen in the file input: handleFileImport.  A name that does not
\* end in .docx gets a destructive toast and nothing else; otherwise
\* setImporting(true) and the file is read and converted by mammoth.
ImportFile(f) ==
    /\ ListShown
    /\ ~importing
    /\ importCount < MaxImports
    /\ importCount' = importCount + 1
    /\ fileInput' = f
    /\ IF IsDocxName(f)
       THEN /\ importing' = TRUE
            /\ imports' = imports \cup
                   {[n |-> importCount + 1, inst |-> session, name |-> f,
                     stage |-> "convert", doc |-> NoDoc]}
            /\ importLog' = [importLog EXCEPT ![importCount + 1] =
                                [NoImport EXCEPT !.name = f,
                                                 !.outcome = "running"]]
            /\ UNCHANGED toasts
       ELSE /\ toasts' = ToastError(toasts)
            /\ importLog' = [importLog EXCEPT ![importCount + 1] =
                                [NoImport EXCEPT !.name = f,
                                                 !.outcome = "rejected",
                                                 !.errors = 1]]
            /\ UNCHANGED <<importing, imports>>
    /\ UNCHANGED <<store, clockVars, failures, appVars, editorVars, loadVars,
                   timers, inflight, editHistVars, opens, titleUpdates,
                   exportVars, creating, createdIds, createCount>>
    /\ UNCHANGED authVars

\* handleFileImport without its finally block.
ImportFinally_Skip(i) == UNCHANGED <<importing, fileInput>>

\* The finally block of handleFileImport: setImporting(false) and, if the file
\* input is still there, its value is cleared.  Both reach only the list
\* instance that started the import, if it is still on screen.
ImportFinally(i) ==
    IF ListLive(i.inst)
    THEN importing' = FALSE /\ fileInput' = NoFile
    ELSE UNCHANGED <<importing, fileInput>>

\* handleFileImport resumes after mammoth.convertToHtml.  With the html c it
\* awaits documents.create with the id `doc_${Date.now()}`; a conversion that
\* throws ends in the catch block (destructive toast) and the finally block.
ConvertDone(i, c, ok) ==
    /\ i \in imports
    /\ i.stage = "convert"
    /\ IF ok
       THEN /\ imports' = (imports \ {i}) \cup
                   {[i EXCEPT !.stage = "create",
                              !.doc = [id |-> IdAt(now),
                                       title |-> ImportTitle(i.name),
                                       content |-> c,
                                       owner_user_id |-> UserId,
                                       created_at |-> now,
                                       updated_at |-> now]]}
            /\ createdIds' = Append(createdIds, IdAt(now))
            /\ stamped' = TRUE
            /\ importLog' = [importLog EXCEPT ![i.n].created = TRUE]
            /\ UNCHANGED <<noteVars, listUi>>
       ELSE /\ imports' = imports \ {i}
            /\ toasts' = ToastError(toasts)
            /\ failures' = failures + 1
            /\ importLog' = [importLog EXCEPT ![i.n].outcome = "convertFailed",
                                              ![i.n].errors = @ + 1]
            /\ ImportFinally(i)
            /\ UNCHANGED <<createdIds, stamped>>
    /\ UNCHANGED <<store, now, appVars, editorVars, loadVars, timers, inflight,
                   editHistVars, opens, titleUpdates, exportVars, creating,
                   importCount, createCount>>
    /\ UNCHANGED authVars

\* handleFileImport resumes after documents.create: it awaits loadDocuments(),
\* or ends in the catch block (destructive toast) and the finally block.
ImportCreateDone(i, ok) ==
    /\ i \in imports
    /\ i.stage = "create"
    /\ IF ok
       THEN /\ store' = StoreCreate(store, i.doc)
            /\ imports' = (imports \ {i}) \cup {[i EXCEPT !.stage = "reload"]}
            /\ UNCHANGED <<noteVars, listUi, importLog>>
       ELSE /\ imports' = imports \ {i}
            /\ toasts' = ToastError(toasts)
            /\ failures' = failures + 1
            /\ importLog' = [importLog EXCEPT ![i.n].outcome = "createFailed",
                                              ![i.n].errors = @ + 1]
            /\ ImportFinally(i)
            /\ UNCHANGED store
    /\ UNCHANGED <<clockVars, appVars, editorVars, loadVars, timers, inflight,
                   editHistVars, opens, titleUpdates, exportVars, creating,
                   createdIds, importCount, createCount>>
    /\ UNCHANGED authVars

\* handleFileImport resumes after loadDocuments(), which catches its own
\* failure (destructive toast) and returns: onDocumentSelect(newDoc.id), a
\* success toast and the finally block.
ImportReloadDone(i, ok) ==
    /\ i \in imports
    /\ i.stage = "reload"
    /\ imports' = imports \ {i}
    /\ OnDocumentSelect(i.doc.id)
    /\ toasts' = ToastSuccess(IF ok THEN toasts ELSE ToastError(toasts))
    /\ failures' = IF ok THEN failures ELSE failures + 1
    /\ importLog' = [importLog EXCEPT ![i.n].outcome = "done",
                                      ![i.n].navigated = TRUE,
                                      ![i.n].errors = IF ok THEN @ ELSE @ + 1]
    /\ UNCHANGED <<store, clockVars, loaded, loadFailed, timers, inflight,
                   editHistVars, opens, titleUpdates, exportVars, creating,
                   createdIds, importCount, createCount>>
    /\ UNCHANGED authVars

\* ---------------------------------------------------------- actions of App

\* blink.auth.onAuthStateChanged reports (u, l): setUser(state.user) and
\* setLoading(state.isLoading), then App renders again.  A view that is no
\* longer returned is unmounted and its state is gone; a view that is returned
\* anew is a new instance (the editor starts its loadDocument effect).  The
\* selection currentDocumentId is kept.
AuthStateChanged(u, l) ==
    /\ authChanges < MaxAuthChanges
    /\ <<u, l>> # <<user, authLoading>>
    /\ authChanges' = authChanges + 1
    /\ user' = u
    /\ authLoading' = l
    /\ LET old == Screen
           new == Render(u, l, currentDocumentId)
       IN /\ IF old = "editor" /\ new = "editor"
             THEN UNCHANGED <<editorVars, session, loads>>
             ELSE /\ document' = NoDoc
                  /\ loading' = TRUE
                  /\ saving' = FALSE
                  /\ html' = ""
                  /\ lastEdit' = 0
                  /\ session' = IF new \in {"editor", "list"} /\ new # old
                                THEN session + 1 ELSE session
                  /\ loads' = IF new = "editor"
                              THEN loads \cup {[sess |-> session + 1,
                                                id |-> currentDocumentId]}
                              ELSE loads
          /\ IF old = "list" /\ new = "list"
             THEN UNCHANGED listUi
             ELSE importing' = FALSE /\ fileInput' = NoFile
    /\ UNCHANGED <<store, clockVars, noteVars, currentDocumentId, loaded,
                   loadFailed, timers, inflight, editHistVars, opens,
                   titleUpdates, exportVars, listCalls>>

Next ==
    \/ \E id \in DocIds : Open(id)
    \/ \E l \in loads, r \in LoadResults : LoadDone(l, r)
    \/ Back
    \/ \E c \in Contents : Edit(c)
    \/ Tick(TickMs)
    \/ Fire
    \/ \E w \in inflight, ok \in BOOLEAN : SaveDone(w, ok)
    \/ \E v \in TitleInputs : HandleTitleSubmit(v)
    \/ \E w \in inflight, ok \in BOOLEAN : TitleDone(w, ok)
    \/ Export
    \/ \E e \in exports, ok \in BOOLEAN : ExportDone(e, ok)

Spec == Init /\ [][Next]_vars

\* The list view: creating, importing and opening documents.
NextList ==
    \/ \E id \in DocIds : Open(id)
    \/ \E l \in loads, r \in LoadResults : LoadDone(l, r)
    \/ Back
    \/ Tick(TickMs)
    \/ CreateNew
    \/ \E c \in creating, ok \in BOOLEAN : CreateDone(c, ok)
    \/ \E f \in Files : ImportFile(f)
    \/ \E i \in imports, c \in ImportedContents, ok \in BOOLEAN :
            ConvertDone(i, c, ok)
    \/ \E i \in imports, ok \in BOOLEAN : ImportCreateDone(i, ok)
    \/ \E i \in imports, ok \in BOOLEAN : ImportReloadDone(i, ok)

SpecList == Init /\ [][NextList]_vars

\* User operations performed so far, over both views.
Ops == edits + opens + titleUpdates + exportCount + createCount + importCount

\* The steps of the program that are not started by the user: results of
\* store and codec calls, timers, the clock.
Completions ==
    \/ \E l \in loads, r \in LoadResults : LoadDone(l, r)
    \/ Tick(TickMs)
    \/ Fire
    \/ \E w \in inflight, ok \in BOOLEAN : SaveDone(w, ok)
    \/ \E w \in inflight, ok \in BOOLEAN : TitleDone(w, ok)
    \/ \E e \in exports, ok \in BOOLEAN : ExportDone(e, ok)

\* The whole application, for behaviours of at most MaxOps user operations
\* (Back is not counted).
NextAll ==
    \/ \E id \in DocIds : Open(id) /\ Ops < MaxOps
    \/ Back
    \/ \E c \in Contents : Edit(c) /\ Ops < MaxOps
    \/ \E v \in TitleInputs : HandleTitleSubmit(v) /\ Ops < MaxOps
    \/ Export /\ Ops < MaxOps
    \/ CreateNew /\ Ops < MaxOps
    \/ \E f \in Files : ImportFile(f) /\ Ops < MaxOps
    \/ Completions
    \/ \E c \in creating, ok \in BOOLEAN : CreateDone(c, ok)
    \/ \E i \in imports, c \in ImportedContents, ok \in BOOLEAN :
            ConvertDone(i, c, ok)
    \/ \E i \in imports, ok \in BOOLEAN : ImportCreateDone(i, ok)
    \/ \E i \in imports, ok \in BOOLEAN : ImportReloadDone(i, ok)

SpecAll == Init /\ [][NextAll]_vars

\* One editor at work, for behaviours of at most MaxSessionOps user operations
\* (Back is not counted).
NextSession ==
    \/ \E id \in DocIds : Open(id) /\ Ops < MaxSessionOps
    \/ Back
    \/ \E c \in Contents : Edit(c) /\ Ops < MaxSessionOps
    \/ \E v \in TitleInputs : HandleTitleSubmit(v) /\ Ops < MaxSessionOps
    \/ Export /\ Ops < MaxSessionOps
    \/ Completions

SpecSession == Init /\ [][NextSession]_vars

\* App: authentication, selecting a document, creating one, going back.
NextApp ==
    \/ \E u \in {NoUser, UserId}, l \in BOOLEAN : AuthStateChanged(u, l)
    \/ \E id \in DocIds : Open(id)
    \/ \E l \in loads, r \in LoadResults : LoadDone(l, r)
    \/ Back
    \/ CreateNew
    \/ \E c \in creating, ok \in BOOLEAN : CreateDone(c, ok)

SpecApp == InitApp /\ [][NextApp]_vars

\* ------------------------------------------------------------- properties

\* The mounted session is quiet: its editor is on screen, no timer is armed
\* and no store write is in flight.
Quiet == Rendered /\ timers = <<>> /\ inflight = {}

\* No content write has failed.
NoFailure == \A k \in 1..MaxEdits : hist[k].status # "failed"

\* Edits whose content write has been issued.
Issued(k) == hist[k].status \in {"inflight", "saved", "failed"}

\* C1: single-flight content writes -- at most one content write of the open
\* editor session is in flight at any instant.
C1_SingleFlightContent ==
    Mounted => Cardinality(ContentWrites(session)) <= 1

\* C2: debounce coalescing -- edits that each arrive less than DebounceMs after
\* the previous one produce one content write, carrying the last of them: no
\* write is issued for an edit that another edit followed within the window.
C2_DebounceCoalescing ==
    \A k \in 1..MaxEdits : Issued(k) => ~hist[k].superseded

\* C3: eventual consistency -- once the session is quiet and every write has
\* succeeded, the write that completed last carries the last edit and the
\* stored content is the editor's content.
C3_EventualConsistency ==
    (Quiet /\ NoFailure /\ lastEdit > 0) =>
        /\ lastDone.seq = lastEdit
        /\ store[document.id].content = html

\* C4: follow-up write -- an edit that arrived while a content write was in
\* flight is not discarded: once the session is quiet, a write carrying the
\* latest edit has been issued.
C4_FollowUpWrite ==
    (Quiet /\ lastEdit > 0 /\ hist[lastEdit].duringWrite) => Issued(lastEdit)

\* C5: failure then retry loses no data -- a write that succeeds after a write
\* of the same session failed carries the failed content or a newer edit.
C5_NoOlderAfterFailure ==
    (lastDone.seq > 0 /\ lastDone.ok) =>
        \A k \in 1..MaxEdits :
            (hist[k].status = "failed" /\ hist[k].sess = hist[lastDone.seq].sess)
                => k <= lastDone.seq

\* C6: no false 'Saved' -- while content whose write failed has not been
\* written successfully, the status bar does not show 'Saved'.
C6_NoFalseSaved ==
    (Rendered /\ \E c \in Contents : <<session, c>> \in failedPending)
        => StatusText # "Saved"

\* C7: single-flight across write kinds -- a title update and a content write
\* for the same document are never in flight together.
C7_SingleFlightAcrossKinds ==
    \A w1, w2 \in inflight :
        (w1.kind = "content" /\ w2.kind = "title") => w1.id # w2.id

\* C8: timer reset, no stacking -- at most one debounce timer of the session
\* is armed.
C8_OneTimerArmed ==
    Mounted => Len(SelectSeq(timers, LAMBDA t : t.sess = session)) <= 1

\* C9: latest snapshot per write -- the content a write sends is the editor's
\* content at the moment the write began.
C9_LatestSnapshot ==
    \A w \in inflight : w.kind = "content" => w.content = w.editorHTML

\* C10: exclusive session ownership -- writes of two different editor sessions
\* of the same document are never in flight together.
C10_ExclusiveSession ==
    \A w1, w2 \in inflight : w1.id = w2.id => w1.sess = w2.sess


\* C11: final flush on close -- when the editor is closed while the latest
\* edit's content has no write in flight and none completed successfully, the
\* closing step issues a content write carrying the editor's content.
C11_FinalFlush ==
    [][(/\ Rendered
        /\ ~Mounted'
        /\ lastEdit > 0
        /\ hist[lastEdit].status \in {"armed", "dropped", "failed"})
       => \E w \in inflight' \ inflight :
             w.kind = "content" /\ w.sess = session /\ w.content = html]_vars

\* C13: load failure is terminal -- a session whose first load threw or found
\* no match is not on screen (onBack was called), was never loaded, and has
\* neither an armed timer nor a store write, nor had any edit.
C13_LoadFailureTerminal ==
    \A s \in loadFailed :
        /\ ~(Mounted /\ session = s)
        /\ s \notin loaded
        /\ \A w \in inflight : w.sess # s
        /\ \A i \in 1..Len(timers) : timers[i].sess # s
        /\ \A k \in 1..MaxEdits : hist[k].sess # s

\* A load has failed, and a later session is at work.
C13_Witness ==
    /\ loadFailed # {}
    /\ Rendered
    /\ session \notin loadFailed
    /\ inflight # {}

\* C15: no write before load -- every content or title write in flight, and
\* every armed timer, belongs to a session whose document has been loaded.
C15_NoWriteBeforeLoad ==
    /\ \A w \in inflight : w.sess \in loaded
    /\ \A i \in 1..Len(timers) : timers[i].sess \in loaded /\ timers[i].doc

\* A timer of an earlier session has fired, and its write is in flight, while
\* the session on screen is still loading.
C15_Witness ==
    /\ Mounted
    /\ session \notin loaded
    /\ [sess |-> session, id |-> currentDocumentId] \in loads
    /\ inflight # {}

\* C16: empty content is persisted like any other -- whether an edit's timer
\* issues a write depends only on the saving flag at the edit, not on the
\* content; and the write carries the edit's content, the empty string too.
C16_EmptyContentPersisted ==
    /\ \A k \in 1..MaxEdits :
          /\ hist[k].status = "dropped" => hist[k].savingAtEdit
          /\ Issued(k) => ~hist[k].savingAtEdit
    /\ \A w \in inflight :
          w.kind = "content" => w.content = hist[w.seq].content

\* A write of the empty string is in flight for an edit that emptied the
\* editor.
C16_Witness ==
    \E w \in inflight :
        w.kind = "content" /\ w.content = "" /\ hist[w.seq].content = ""

\* C17: export changes no state -- a step that starts or ends an export leaves
\* the store, the calls in flight, the session's document, the saving flag,
\* the editor content and the armed timers as they were.
C17_ExportFrame ==
    [][exports' # exports =>
          UNCHANGED <<store, inflight, document, saving, html, timers>>]_vars

\* An export has failed while a timer was armed and a write was in flight.
C17_Witness ==
    /\ exportCount > 0
    /\ exports = {}
    /\ downloads = {}
    /\ timers # <<>>
    /\ inflight # {}

\* Imports that ended at the check of the file name.
Rejected == {n \in 1..MaxImports : importLog[n].outcome = "rejected"}

\* C12: failures are reported exactly once -- the destructive notifications
\* shown are one per failed store or codec call (load, content save, title
\* update, create, import, export), and one per file refused for its name.
C12_FailuresReportedOnce ==
    toasts.error = failures + Cardinality(Rejected)

\* An import's conversion has failed and so has another call.
C12_Witness ==
    /\ failures >= 2
    /\ \E n \in 1..MaxImports : importLog[n].outcome = "convertFailed"

\* C14: import failure mutates nothing -- a file whose name does not end in
\* .docx (whatever the case) is refused, and an import that was refused or
\* whose conversion failed has created no document, has navigated to none and
\* has shown one destructive notification.
C14_ImportFailureMutatesNothing ==
    \A n \in 1..MaxImports :
        LET r == importLog[n]
        IN /\ (r.name # NoFile /\ ~IsDocxName(r.name)) => r.outcome = "rejected"
           /\ r.outcome \in {"rejected", "convertFailed"} =>
                 /\ ~r.created
                 /\ ~r.navigated
                 /\ r.errors = 1
                 /\ \A i \in imports : i.n # n

\* An import has ended refused or with a failed conversion: one destructive
\* notification, the store as it was, the list still on screen.
C14_Witness ==
    /\ \E n \in 1..MaxImports :
          importLog[n].outcome \in {"rejected", "convertFailed"}
    /\ toasts.error = 1
    /\ DOMAIN store = DocIds
    /\ ~Mounted
    /\ ~importing

\* C18: document ids are unique -- the ids given to documents.create by New
\* Document and by import are pairwise different.
C18_UniqueIds ==
    \A i, j \in 1..Len(createdIds) : i # j => createdIds[i] # createdIds[j]

\* C19: identity fields are immutable -- no step changes a stored document's
\* id, owner_user_id or created_at; a step that ends a content save leaves
\* every title as it was, one that ends a title update every content.
C19_IdentityImmutable ==
    [][\A id \in DOMAIN store :
          /\ id \in DOMAIN store'
          /\ store'[id].id = store[id].id
          /\ store'[id].owner_user_id = store[id].owner_user_id
          /\ store'[id].created_at = store[id].created_at
          /\ \A w \in inflight \ inflight' :
                /\ w.kind = "content" => store'[id].title = store[id].title
                /\ w.kind = "title" => store'[id].content = store[id].content]_vars

\* A content save and a title update of the document have both succeeded.
C19_Witness ==
    /\ store["doc_1"].content # ""
    /\ store["doc_1"].title = "Report"
    /\ store["doc_1"].updated_at > store["doc_1"].created_at

\* C20: the editor content is initialised once -- while a loaded session stays
\* on screen, only an edit changes the editor's content.
C20_InitialisedOnce ==
    [][(Rendered /\ Rendered' /\ session' = session /\ edits' = edits)
       => html' = html]_vars

\* Edits made in session s.
EditsOf(s) == {k \in 1..edits : hist[k].sess = s}

\* C21: steady typing -- when a session's edits each arrive within the debounce
\* window of the one before (all but the last were followed within the
\* window), fewer content writes than edits are issued: never one per edit.
C21_SteadyTyping ==
    \A s \in 1..session :
        (/\ Cardinality(EditsOf(s)) >= 2
         /\ \A k \in EditsOf(s) : k # LastEditOf(s) => hist[k].superseded)
        => \E k \in EditsOf(s) : ~Issued(k)

\* C22: no pending content, no write -- a step issues a content write only
\* for an edit of the write's session whose content is waiting behind an armed
\* timer, and the write carries that edit's content; without such an edit no
\* content write is issued.
C22_NoPendingNoWrite ==
    [][\A w \in inflight' \ inflight :
          w.kind = "content" =>
              /\ w.seq \in EditsOf(w.sess)
              /\ hist[w.seq].status = "armed"
              /\ w.content = hist[w.seq].content]_vars

\* The latest edit has been persisted and the session
\* is quiet: nothing is pending.
C22_Witness ==
    /\ Quiet
    /\ lastEdit > 0
    /\ hist[lastEdit].status = "saved"
    /\ store[document.id].content = html

\* C23: the saving flag tracks the write -- the saving flag of the session on
\* screen is true exactly when a content write of that session is in flight.
C23_SavingTracksWrite ==
    Mounted => (saving <=> ContentWrites(session) # {})

\* C24: title submit rule -- a step that calls onTitleChange (a title write is
\* issued) passes a title that is not empty and differs from the document's
\* current title.
C24_TitleSubmitRule ==
    [][\A w \in inflight' \ inflight :
          w.kind = "title" => w.title # "" /\ w.title # document.title]_vars

\* C25: the import flag always resets -- while an import runs and the list
\* that started it is on screen, importing is true; when the handler ends with
\* that list still on screen, importing is false and the file input is empty;
\* and a step of an import that navigates does so at the handler's end, after
\* documents.create has stored the document, to the id that call was given.
C25_ImportFlagResets ==
    [][/\ \A i \in imports' :
             (~Mounted' /\ session' = i.inst) => importing'
       /\ \A i \in imports :
             (\A j \in imports' : j.n # i.n) =>
                 /\ (~Mounted' /\ session' = i.inst) =>
                        ~importing' /\ fileInput' = NoFile
                 /\ importLog'[i.n].navigated =>
                        /\ i.stage = "reload"
                        /\ i.doc.id \in DOMAIN store
                        /\ currentDocumentId' = i.doc.id]_vars

\* An import has ended with a failed create, the list that started it still
\* on screen: the flag is down and the file input empty.
C25_Witness ==
    /\ \E n \in 1..MaxImports : importLog[n].outcome = "createFailed"
    /\ ~Mounted
    /\ session = 0
    /\ ~importing
    /\ fileInput = NoFile

\* C26: authentication gates every document view -- the list or the editor is
\* returned by App only when loading is false and a user is present, the
\* editor exactly when in addition a document is selected; state of an editor
\* or of a list exists only while that view is on screen; and a step that
\* leaves the editor for the list has cleared the selection.
C26_AuthGatesViews ==
    [][/\ (Screen \in {"list", "editor"})' =>
              ~authLoading' /\ user' # NoUser
       /\ (Screen = "editor")' <=>
              (~authLoading' /\ user' # NoUser /\ currentDocumentId' # NoId)
       /\ (document' # NoDoc \/ saving' \/ html' # "" \/ ~loading') =>
              (Screen = "editor")'
       /\ (importing' \/ fileInput' # NoFile) => (Screen = "list")'
       /\ (Screen = "editor" /\ (Screen = "list")') =>
              currentDocumentId' = NoId]_vars

\* The user has signed out with a document open, the sign-in screen is shown
\* and the selection is still there.
C26_Witness ==
    /\ Screen = "signin"
    /\ currentDocumentId # NoId
    /\ loaded # {}

=============================================================================
